---- MODULE Spec2Model ----
(***************************************************************************)
(* Playback entitlement and session controller of the OTT backend:         *)
(* subscription resolution, quality negotiation, the per-account device    *)
(* and active-stream registries kept in the User document, and the         *)
(* stream-start handlers that mutate them.                                 *)
(*                                                                         *)
(* One account is modelled; every handler is an Express async function,    *)
(* so a request is a small process whose steps are the stretches of code   *)
(* between two awaits.  The User document lives in MongoDB; a handler      *)
(* works on the copy it loaded and user.save() sends only the delta of     *)
(* that copy (Mongoose): an array push becomes $push and increments __v    *)
(* without testing it, a write to devices.<i>.<field> tests __v, and a     *)
(* replaced array tests and increments __v.                                *)
(***************************************************************************)
EXTENDS Integers, Sequences, FiniteSets, TLC

\* ------------------------------------------------------------------ bounds
MaxStreamReqs == 3
MaxEntitleReqs == 1
MaxDeviceReqs == 2
MaxQualityReqs == 2

MaxCopyReqs == 2

MaxLedgerReqs == 2

MaxReapReqs == 2
MaxTime == 1
MaxSubs == 1
MaxPays == 1
MaxRenewSubs == 2
MaxRenewPays == 2
MaxRenewReqs == 1
MaxUnlinkReqs == 3

\* ------------------------------------------------------- program constants
DefaultMaxStreams == 3
DefaultMaxDevices == 5
TokenTTL == 7200
UrlTTL == 7200

\* ------------------------------------------------------------- vocabulary
NoDevice == 0
NoQuality == "none"
NoSub == 0
Unset == 0

\* Quality hierarchy for comparison
QUALITY_LEVELS == [q \in {"480p", "720p", "1080p", "4K"} |->
                     CASE q = "480p" -> 1
                       [] q = "720p" -> 2
                       [] q = "1080p" -> 3
                       [] q = "4K" -> 4]

\* Available qualities in order
AVAILABLE_QUALITIES == <<"480p", "720p", "1080p", "4K">>

\* QUALITY_LEVELS[q] || dflt
LevelOr(q, dflt) == IF q \in DOMAIN QUALITY_LEVELS THEN QUALITY_LEVELS[q] ELSE dflt

\* Plan documents (reference data): features.quality, features.maxDevices,
\* features.maxStreams, duration in days.
PlanIds == 1 .. 4
Plan == [p \in PlanIds |->
           CASE p = 1 -> [quality |-> "480p", maxDevices |-> 1, maxStreams |-> 1, duration |-> 1]
             [] p = 2 -> [quality |-> "720p", maxDevices |-> 2, maxStreams |-> 2, duration |-> 1]
             [] p = 3 -> [quality |-> "1080p", maxDevices |-> 5, maxStreams |-> 3, duration |-> 2]
             [] p = 4 -> [quality |-> "4K", maxDevices |-> 5, maxStreams |-> 4, duration |-> 2]]

getMaxQuality(plan) == IF plan.quality = NoQuality THEN "480p" ELSE plan.quality

\* faulty variant: the requested quality is returned without the comparison
validateQualityNoClamp(requestedQuality, maxQuality) ==
  IF requestedQuality = NoQuality THEN maxQuality ELSE requestedQuality

validateQuality(requestedQuality, maxQuality) ==
  IF requestedQuality = NoQuality
  THEN maxQuality
  ELSE LET requestedLevel == LevelOr(requestedQuality, 0)
           maxLevel == LevelOr(maxQuality, 1)
       IN IF requestedLevel > maxLevel THEN maxQuality ELSE requestedQuality

\* faulty variant: < in place of <=
getAvailableQualitiesBelow(maxQuality) ==
  LET maxLevel == LevelOr(maxQuality, 1)
  IN SelectSeq(AVAILABLE_QUALITIES, LAMBDA q : QUALITY_LEVELS[q] < maxLevel)

getAvailableQualitiesList(maxQuality) ==
  LET maxLevel == LevelOr(maxQuality, 1)
  IN SelectSeq(AVAILABLE_QUALITIES, LAMBDA q : QUALITY_LEVELS[q] <= maxLevel)

\* an absent object path
NoPath == <<>>

\* Catalog documents: the isActive flag and the stored object path. The
\* Episode schema requires video; the Movie schema has no such field, so
\* movie.video is undefined.
Catalog == [c \in {"m1", "m3", "e1"} |->
              CASE c = "m1" -> [type |-> "Movie", isActive |-> TRUE, video |-> NoPath]
                [] c = "m3" -> [type |-> "Movie", isActive |-> FALSE, video |-> NoPath]
                [] c = "e1" -> [type |-> "Episode", isActive |-> TRUE,
                                video |-> <<"stored", "e1">>]]

\* Model.findById(id) of the Movie or Episode collection: found or null
findContent(type, id) == id \in DOMAIN Catalog /\ Catalog[id].type = type

\* getVideoPath(type, contentId, quality, seasonId, episodeId) with a quality
getVideoPath(type, contentId, quality) == <<type, contentId, quality>>

\* uuidv4(): the k-th identifier drawn by request r
uuidv4(r, k) == 100 + 10 * r + k

VARIABLES
  now,       \* the wall clock, in ticks
  env,       \* process.env: MAX_CONCURRENT_STREAMS and MAX_DEVICES_PER_USER
  userDoc,   \* the User document in the database
  subs,      \* the account's Subscription documents, in insertion order
  pays,      \* the account's Payment documents
  reqs,      \* the HTTP requests of the run
  hist       \* the WatchHistory collection, in insertion order

vars == <<now, env, userDoc, subs, pays, reqs, hist>>

Reqs == 1 .. Len(reqs)

EmptySnap == [devices |-> <<>>, currentStreams |-> <<>>, v |-> 0]

NoToken == [deviceId |-> NoDevice, quality |-> NoQuality, iat |-> 0, ttl |-> 0]

NoUrl == [key |-> NoPath, signedAt |-> 0, ttl |-> 0]

\* a request body field that was not sent
Undefined == -1000

\* the body of a position update
NoBody == [contentId |-> "", contentType |-> "", watchedDuration |-> Undefined,
           totalDuration |-> Undefined]

\* a WatchHistory document with the schema defaults, before it has a key
NoRow == [contentId |-> "", contentType |-> "", watchedDuration |-> 0,
          totalDuration |-> 0, progress |-> 0, completed |-> FALSE,
          lastWatchedAt |-> 0]

\* playbackPosition: null in a stream-start response, nothing read yet
NoResume == -1

IdleReq == [kind |-> "none", def |-> 1, pc |-> "idle", content |-> "", dev |-> NoDevice,
            q |-> NoQuality, ip |-> "", mode |-> "", snap |-> EmptySnap, seen |-> 0, sub |-> NoSub,
            maxQuality |-> NoQuality, quality |-> NoQuality, avail |-> <<>>,
            path |-> NoPath, token |-> NoToken, url |-> NoUrl, entryDev |-> NoDevice,
            body |-> NoBody, found |-> 0, loaded |-> NoRow, doc |-> NoRow,
            resume |-> NoResume, status |-> 0, msg |-> ""]

\* process.env as deployed: the two limits unset (the defaults apply), or set
Envs == {[streams |-> Unset, devices |-> Unset], [streams |-> 1, devices |-> 1]}

Init ==
  /\ now = 0
  /\ env \in Envs
  /\ userDoc = [devices |-> <<>>, currentStreams |-> <<>>, v |-> 0, subscription |-> NoSub]
  /\ subs = <<>>
  /\ pays = <<>>
  /\ reqs = <<>>
  /\ hist = <<>>

\* --------------------------------------------------------------- User model
\* userSchema.methods.checkStreamLimit, on a loaded copy of the document
checkStreamLimit(doc) ==
  LET maxStreams == IF env.streams = Unset THEN DefaultMaxStreams ELSE env.streams
  IN Len(doc.currentStreams) < maxStreams

\* userSchema.methods.checkDeviceLimit
checkDeviceLimit(doc) ==
  LET maxDevices == IF env.devices = Unset THEN DefaultMaxDevices ELSE env.devices
  IN Len(doc.devices) < maxDevices

\* ------------------------------------------------------- Subscription model
\* faulty variant: the end date is not compared
isActiveStatusOnly(s) == s.status = "active"

\* subscriptionSchema.methods.isActive
isActive(s) == s.status = "active" /\ s.endDate > now

\* Subscription.findOne({ user, status: 'active' }): the first match in
\* insertion order, NoSub when there is none
ActiveSubs == {i \in 1 .. Len(subs) : subs[i].status = "active"}

findOneActive ==
  IF ActiveSubs = {} THEN NoSub
  ELSE CHOOSE i \in ActiveSubs : \A j \in ActiveSubs : i <= j

\* ----------------------------------------------------------------- clock
Tick ==
  /\ now < MaxTime
  /\ now' = now + 1
  /\ UNCHANGED <<env, userDoc, subs, pays, reqs, hist>>

\* ------------------------------------------------- subscriptionController
\* POST /subscription/subscribe
subscribe(planId) ==
  /\ LET existingSubscription == findOneActive
     IN /\ ~(existingSubscription # NoSub /\ isActive(subs[existingSubscription]))
        /\ subs' = Append(subs, [plan |-> planId, status |-> "pending",
                                 startDate |-> now,
                                 endDate |-> now + Plan[planId].duration])
  /\ UNCHANGED <<now, env, userDoc, pays, reqs, hist>>

\* POST /payment/create-order
createPaymentOrder(subscriptionId) ==
  /\ subscriptionId \in 1 .. Len(subs)
  /\ pays' = Append(pays, [subscription |-> subscriptionId,
                           plan |-> subs[subscriptionId].plan,
                           status |-> "pending"])
  /\ UNCHANGED <<now, env, userDoc, subs, reqs, hist>>

\* faulty variant: the subscription is activated whatever the signature check said
verifyPaymentUnchecked(paymentId, isValid) ==
  /\ paymentId \in 1 .. Len(pays)
  /\ LET payment == pays[paymentId]
     IN /\ pays' = [pays EXCEPT ![paymentId].status =
                                   IF isValid THEN "completed" ELSE "failed"]
        /\ subs' = [subs EXCEPT ![payment.subscription] =
                      [@ EXCEPT !.status = "active",
                                !.startDate = now,
                                !.endDate = now + Plan[payment.plan].duration]]
        /\ userDoc' = [userDoc EXCEPT !.subscription = payment.subscription]
  /\ UNCHANGED <<now, env, reqs, hist>>

\* POST /payment/verify
verifyPayment(paymentId, isValid) ==
  /\ paymentId \in 1 .. Len(pays)
  /\ IF ~isValid
     THEN /\ pays' = [pays EXCEPT ![paymentId].status = "failed"]
          /\ UNCHANGED <<subs, userDoc>>
     ELSE LET payment == pays[paymentId]
          IN /\ pays' = [pays EXCEPT ![paymentId].status = "completed"]
             /\ subs' = [subs EXCEPT ![payment.subscription] =
                           [@ EXCEPT !.status = "active",
                                     !.startDate = now,
                                     !.endDate = now + Plan[payment.plan].duration]]
             /\ userDoc' = [userDoc EXCEPT !.subscription = payment.subscription]
  /\ UNCHANGED <<now, env, reqs, hist>>

\* POST /subscription/cancel
cancelSubscription ==
  /\ findOneActive # NoSub
  /\ subs' = [subs EXCEPT ![findOneActive].status = "cancelled"]
  /\ UNCHANGED <<now, env, userDoc, pays, reqs, hist>>

\* ----------------------------------------------------------- HTTP requests
\* requests are numbered in the order they arrive
Arrive(req) == reqs' = Append(reqs, req)

\* User.findById(userId): the handler's own copy of the document
LoadUser == [devices |-> userDoc.devices, currentStreams |-> userDoc.currentStreams,
             v |-> userDoc.v]

Respond(req, status, msg) ==
  [req EXCEPT !.pc = "done", !.status = status, !.msg = msg, !.snap = EmptySnap]

\* new Date() in the handler of request r: requests are numbered in the
\* order they arrive, so r orders these instants
Instant(r) == r

\* ------------------------------------------------- WatchHistory model
\* Math.round(x / y * 100) for y > 0: the nearest integer, halves upwards
RoundPercent(x, y) == (200 * x + y) \div (2 * y)

Min(a, b) == IF a <= b THEN a ELSE b

\* watchHistorySchema.methods.updateProgress
updateProgress(doc) ==
  IF doc.totalDuration > 0
  THEN LET progress == Min(100, RoundPercent(doc.watchedDuration, doc.totalDuration))
       IN [doc EXCEPT !.progress = progress, !.completed = (progress >= 90)]
  ELSE doc

\* WatchHistory.findOne({ user, contentId, contentType }): the index of the
\* first matching row, 0 when there is none
findOneHistory(contentId, contentType) ==
  LET hits == {i \in 1 .. Len(hist) : /\ hist[i].contentId = contentId
                                      /\ hist[i].contentType = contentType}
  IN IF hits = {} THEN 0 ELSE CHOOSE i \in hits : \A j \in hits : i <= j

\* x || y on a number that may be absent
OrElse(x, y) == IF x = Undefined \/ x = 0 THEN y ELSE x

\* schema validation at save(): progress has min 0 and max 100
ValidRow(doc) == doc.progress >= 0 /\ doc.progress <= 100

\* faulty variant: the collection has no unique index
InsertAllowedNoIndex(doc) == doc = doc

\* the unique index { user, contentId, contentType } admits the insert
InsertAllowed(doc) == findOneHistory(doc.contentId, doc.contentType) = 0

\* faulty variant: the watched duration is added to the stored one
SaveModifiedAdds(row, loaded, doc) ==
  [row EXCEPT !.watchedDuration = @ + doc.watchedDuration,
              !.totalDuration = doc.totalDuration,
              !.progress = doc.progress,
              !.completed = doc.completed,
              !.lastWatchedAt = doc.lastWatchedAt]

\* the fields of a loaded document that save() sends: those whose value
\* differs from the loaded one
SaveModified(row, loaded, doc) ==
  [row EXCEPT
     !.watchedDuration = IF doc.watchedDuration # loaded.watchedDuration
                         THEN doc.watchedDuration ELSE @,
     !.totalDuration = IF doc.totalDuration # loaded.totalDuration
                       THEN doc.totalDuration ELSE @,
     !.progress = IF doc.progress # loaded.progress THEN doc.progress ELSE @,
     !.completed = IF doc.completed # loaded.completed THEN doc.completed ELSE @,
     !.lastWatchedAt = doc.lastWatchedAt]

\* ------------------------------------------------------ streamingController
\* faulty variant: the 403 is sent but the handler does not return
EntitlementDeniedNoReturn(req) ==
  [req EXCEPT !.pc = "content", !.status = 403, !.msg = "Active subscription required"]

\* return res.status(403).json({ message: 'Active subscription required' })
EntitlementDenied(req) == Respond(req, 403, "Active subscription required")

\* return res.status(403).json({ message: 'Maximum concurrent streams reached' })
StreamLimitDenied(req) == Respond(req, 403, "Maximum concurrent streams reached")

ContentTypeOf(kind) == IF kind = "movie" THEN "Movie" ELSE "Episode"

\* getMovieStream / getEpisodeStream up to the first await: User.findById
StreamLoadUser(kind, id, deviceId, quality) ==
  /\ kind \in {"movie", "episode"}
  /\ Arrive([IdleReq EXCEPT !.kind = kind, !.pc = "sub", !.content = id,
                            !.dev = deviceId, !.q = quality, !.snap = LoadUser,
                            !.seen = Len(userDoc.currentStreams)])
  /\ UNCHANGED <<now, env, userDoc, subs, pays, hist>>

\* Subscription.findOne + isActive(), quality negotiation, checkStreamLimit()
StreamResolve(r) ==
  /\ reqs[r].pc = "sub"
  /\ reqs[r].kind \in {"movie", "episode"}
  /\ LET req == reqs[r]
         subscription == findOneActive
     IN IF subscription = NoSub \/ ~isActive(subs[subscription])
        THEN reqs' = [reqs EXCEPT ![r] = EntitlementDenied(req)]
        ELSE LET plan == Plan[subs[subscription].plan]
                 maxQuality == getMaxQuality(plan)
                 validQuality == validateQuality(req.q, maxQuality)
                 availableQualities == getAvailableQualitiesList(maxQuality)
             IN IF ~checkStreamLimit(req.snap)
                THEN reqs' = [reqs EXCEPT ![r] =
                                StreamLimitDenied([req EXCEPT !.sub = subscription])]
                ELSE reqs' = [reqs EXCEPT ![r] =
                                [req EXCEPT !.pc = "content", !.sub = subscription,
                                            !.maxQuality = maxQuality,
                                            !.quality = validQuality,
                                            !.avail = availableQualities]]
  /\ UNCHANGED <<now, env, userDoc, subs, pays, hist>>

\* Movie.findById / Episode.findById, media key, token, currentStreams.push
StreamContent(r) ==
  /\ reqs[r].pc = "content"
  /\ LET req == reqs[r]
         type == ContentTypeOf(req.kind)
     IN IF ~findContent(type, req.content) \/ ~Catalog[req.content].isActive
        THEN reqs' = [reqs EXCEPT ![r] = Respond(req, 404, "not found")]
        ELSE LET stored == Catalog[req.content].video
                 videoPath == IF stored = NoPath \/ req.q # NoQuality
                              THEN getVideoPath(req.kind, req.content, req.quality)
                              ELSE stored
                 tokenDevice == IF req.dev # NoDevice THEN req.dev ELSE uuidv4(r, 1)
                 entryDevice == IF req.dev # NoDevice THEN req.dev ELSE uuidv4(r, 2)
             IN reqs' = [reqs EXCEPT ![r] =
                           [req EXCEPT !.pc = "save", !.path = videoPath,
                                       !.token = [deviceId |-> tokenDevice,
                                                  quality |-> req.quality,
                                                  iat |-> now, ttl |-> TokenTTL],
                                       !.entryDev = entryDevice]]
  /\ UNCHANGED <<now, env, userDoc, subs, pays, hist>>

\* await user.save(): the pushed entry reaches the database as a $push
StreamSave(r) ==
  /\ reqs[r].pc = "save"
  /\ reqs[r].kind \in {"movie", "episode"}
  /\ LET req == reqs[r]
         entry == [contentId |-> req.content, contentType |-> ContentTypeOf(req.kind),
                   deviceId |-> req.entryDev, startedAt |-> now, id |-> r]
     IN /\ userDoc' = [userDoc EXCEPT !.currentStreams = Append(@, entry),
                                      !.v = @ + 1]
        /\ reqs' = [reqs EXCEPT ![r] = [req EXCEPT !.pc = "sign", !.snap = EmptySnap]]
  /\ UNCHANGED <<now, env, subs, pays, hist>>

\* the first definition's WatchHistory.findOne after the save (the second
\* definition does not read it): playbackPosition.resumeAt, or null
ReadResume(req) ==
  LET watchHistory == findOneHistory(req.content, ContentTypeOf(req.kind))
  IN IF req.def # 1 \/ watchHistory = 0 THEN NoResume
     ELSE hist[watchHistory].watchedDuration

\* WatchHistory.findOne, getSignedDownloadUrl(videoPath, 7200) and the response
StreamSign(r) ==
  /\ reqs[r].pc = "sign"
  /\ \E ok \in BOOLEAN :
       reqs' = [reqs EXCEPT ![r] =
                  IF ok
                  THEN [Respond(reqs[r], 200, "ok") EXCEPT
                          !.url = [key |-> reqs[r].path, signedAt |-> now, ttl |-> UrlTTL],
                          !.resume = ReadResume(reqs[r])]
                  ELSE Respond(reqs[r], 500, "storage error")]
  /\ UNCHANGED <<now, env, userDoc, subs, pays, hist>>

\* ---- the second getMovieStream / getEpisodeStream of streamingController.js
\* (lines 503-715), the definitions named by the file's last module.exports
\* movie.videoQualities of the catalog: the qualities with a stored path
VideoQualitiesOf == [c \in {"m1", "m3"} |->
                       IF c = "m1" THEN {"480p", "1080p"} ELSE {}]

\* const { quality = '1080p', deviceId } = req.query
DefaultQuality == "1080p"

\* const allowedQualities = ['240p', '360p', '480p']; one push per plan quality
allowedQualities(plan) ==
  {"240p", "360p", "480p"}
    \cup (IF plan.quality = "720p" THEN {"720p"} ELSE {})
    \cup (IF plan.quality = "1080p" THEN {"1080p"} ELSE {})
    \cup (IF plan.quality = "4K" THEN {"4K"} ELSE {})

\* return res.status(403).json({ message: `Quality ${quality} not available in your plan` })
QualityDenied(req) == Respond(req, 403, "Quality not available in your plan")

\* second definition up to the first await: User.findById
StreamLoadUser2(kind, id, deviceId, quality) ==
  /\ kind \in {"movie", "episode"}
  /\ Arrive([IdleReq EXCEPT !.kind = kind, !.def = 2, !.pc = "sub2", !.content = id,
                            !.dev = deviceId, !.q = quality,
                            !.quality = IF quality = NoQuality THEN DefaultQuality
                                        ELSE quality,
                            !.snap = LoadUser,
                            !.seen = Len(userDoc.currentStreams)])
  /\ UNCHANGED <<now, env, userDoc, subs, pays, hist>>

\* second definition: Subscription.findOne + isActive(), allowedQualities,
\* checkStreamLimit()
StreamResolve2(r) ==
  /\ reqs[r].pc = "sub2"
  /\ LET req == reqs[r]
         subscription == findOneActive
     IN IF subscription = NoSub \/ ~isActive(subs[subscription])
        THEN reqs' = [reqs EXCEPT ![r] = EntitlementDenied(req)]
        ELSE LET plan == Plan[subs[subscription].plan]
                 granted == [req EXCEPT !.sub = subscription]
             IN IF req.quality \notin allowedQualities(plan)
                THEN reqs' = [reqs EXCEPT ![r] = QualityDenied(granted)]
                ELSE IF ~checkStreamLimit(req.snap)
                THEN reqs' = [reqs EXCEPT ![r] = StreamLimitDenied(granted)]
                ELSE reqs' = [reqs EXCEPT ![r] = [granted EXCEPT !.pc = "content2"]]
  /\ UNCHANGED <<now, env, userDoc, subs, pays, hist>>

\* second definition: findById, videoQualities[quality], token, push. The
\* Episode schema has no videoQualities, so episode.videoQualities[quality]
\* throws and the catch block passes the error on (500).
StreamContent2(r) ==
  /\ reqs[r].pc = "content2"
  /\ LET req == reqs[r]
         type == ContentTypeOf(req.kind)
     IN IF ~findContent(type, req.content) \/ ~Catalog[req.content].isActive
        THEN reqs' = [reqs EXCEPT ![r] = Respond(req, 404, "not found")]
        ELSE IF type = "Episode"
        THEN reqs' = [reqs EXCEPT ![r] = Respond(req, 500, "TypeError")]
        ELSE IF req.quality \notin VideoQualitiesOf[req.content]
        THEN reqs' = [reqs EXCEPT ![r] =
                        Respond(req, 404, "Quality not available for this movie")]
        ELSE LET tokenDevice == IF req.dev # NoDevice THEN req.dev ELSE uuidv4(r, 1)
                 entryDevice == IF req.dev # NoDevice THEN req.dev ELSE uuidv4(r, 2)
             IN reqs' = [reqs EXCEPT ![r] =
                           [req EXCEPT !.pc = "save",
                                       !.path = <<"videoQualities", req.content,
                                                  req.quality>>,
                                       !.token = [deviceId |-> tokenDevice,
                                                  quality |-> req.quality,
                                                  iat |-> now, ttl |-> TokenTTL],
                                       !.entryDev = entryDevice]]
  /\ UNCHANGED <<now, env, userDoc, subs, pays, hist>>

\* GET /stream/qualities
getAvailableQualities ==
  /\ LET req == [IdleReq EXCEPT !.kind = "qualities"]
         subscription == findOneActive
     IN IF subscription = NoSub \/ ~isActive(subs[subscription])
        THEN Arrive(EntitlementDenied(req))
        ELSE LET plan == Plan[subs[subscription].plan]
                 maxQuality == getMaxQuality(plan)
                 availableQualities == getAvailableQualitiesList(maxQuality)
             IN Arrive([Respond(req, 200, "ok") EXCEPT
                          !.sub = subscription, !.maxQuality = maxQuality,
                          !.avail = availableQualities])
  /\ UNCHANGED <<now, env, userDoc, subs, pays, hist>>

\* ---------------------------------------- playback position (both handlers)
\* new WatchHistory({ ..., watchedDuration: watchedDuration || 0,
\*                    totalDuration: totalDuration || 0 })
NewHistory(body, r) ==
  [NoRow EXCEPT !.contentId = body.contentId, !.contentType = body.contentType,
                !.watchedDuration = OrElse(body.watchedDuration, 0),
                !.totalDuration = OrElse(body.totalDuration, 0),
                !.lastWatchedAt = Instant(r)]

\* POST /stream/playback-position up to the end of WatchHistory.findOne
updatePlaybackPosition(contentId, contentType, watchedDuration, totalDuration) ==
  /\ LET r == Len(reqs) + 1
         body == [contentId |-> contentId, contentType |-> contentType,
                  watchedDuration |-> watchedDuration, totalDuration |-> totalDuration]
         req == [IdleReq EXCEPT !.kind = "position", !.body = body]
         found == findOneHistory(contentId, contentType)
     IN IF watchedDuration = Undefined
        THEN Arrive(Respond(req, 400, "Content ID, type, and watched duration are required"))
        ELSE IF found # 0
        THEN Arrive([req EXCEPT
                       !.pc = "history", !.found = found, !.loaded = hist[found],
                       !.doc = updateProgress(
                                 [hist[found] EXCEPT
                                    !.watchedDuration = watchedDuration,
                                    !.totalDuration = OrElse(totalDuration, @),
                                    !.lastWatchedAt = Instant(r)])])
        ELSE Arrive([req EXCEPT !.pc = "history",
                                !.doc = updateProgress(NewHistory(body, r))])
  /\ UNCHANGED <<now, env, userDoc, subs, pays, hist>>

\* POST /watch-history up to the end of WatchHistory.findOne
updateWatchHistory(contentId, contentType, watchedDuration, totalDuration) ==
  /\ LET r == Len(reqs) + 1
         body == [contentId |-> contentId, contentType |-> contentType,
                  watchedDuration |-> watchedDuration, totalDuration |-> totalDuration]
         req == [IdleReq EXCEPT !.kind = "history", !.body = body]
         found == findOneHistory(contentId, contentType)
     IN IF found # 0
        THEN Arrive([req EXCEPT
                       !.pc = "history", !.found = found, !.loaded = hist[found],
                       !.doc = updateProgress(
                                 [hist[found] EXCEPT
                                    !.watchedDuration = OrElse(watchedDuration, @),
                                    !.totalDuration = OrElse(totalDuration, @),
                                    !.lastWatchedAt = Instant(r)])])
        ELSE Arrive([req EXCEPT !.pc = "history",
                                !.doc = updateProgress(NewHistory(body, r))])
  /\ UNCHANGED <<now, env, userDoc, subs, pays, hist>>

\* await watchHistory.save() / await history.save(), and the response
HistorySave(r) ==
  /\ reqs[r].pc = "history"
  /\ LET req == reqs[r]
     IN IF ~ValidRow(req.doc)
        THEN /\ reqs' = [reqs EXCEPT ![r] = Respond(req, 500, "ValidationError")]
             /\ UNCHANGED hist
        ELSE IF req.found = 0
        THEN IF InsertAllowed(req.doc)
             THEN /\ hist' = Append(hist, req.doc)
                  /\ reqs' = [reqs EXCEPT ![r] =
                                [Respond(req, 200, "ok") EXCEPT !.found = Len(hist) + 1]]
             ELSE /\ reqs' = [reqs EXCEPT ![r] = Respond(req, 500, "E11000 duplicate key")]
                  /\ UNCHANGED hist
        ELSE /\ hist' = [hist EXCEPT ![req.found] = SaveModified(@, req.loaded, req.doc)]
             /\ reqs' = [reqs EXCEPT ![r] = Respond(req, 200, "ok")]
  /\ UNCHANGED <<now, env, userDoc, subs, pays>>

\* GET /stream/playback-position
getPlaybackPosition(contentId, contentType) ==
  /\ LET req == [IdleReq EXCEPT !.kind = "resume",
                                !.body = [NoBody EXCEPT !.contentId = contentId,
                                                        !.contentType = contentType]]
         watchHistory == findOneHistory(contentId, contentType)
     IN Arrive([Respond(req, 200, "ok") EXCEPT
                  !.found = watchHistory,
                  !.resume = IF watchHistory = 0 THEN 0
                             ELSE hist[watchHistory].watchedDuration])
  /\ UNCHANGED <<now, env, userDoc, subs, pays, hist>>

\* ---------------------------------------------------------- deviceController
\* index of the first device of a list with the given id, 0 when absent
\* (Array.prototype.find / some)
FindDevice(devices, deviceId) ==
  LET hits == {i \in 1 .. Len(devices) : devices[i].deviceId = deviceId}
  IN IF hits = {} THEN 0 ELSE CHOOSE i \in hits : \A j \in hits : i <= j

NewDevice(deviceId, ip, r) ==
  [deviceId |-> deviceId, lastActive |-> Instant(r), ipAddress |-> ip]

\* faulty variant: the limit is checked before the device is looked up
DeviceBranchLimitFirst(req) ==
  IF ~checkDeviceLimit(req.snap)
  THEN Respond(req, 403, "Device limit exceeded")
  ELSE IF FindDevice(req.snap.devices, req.dev) # 0
       THEN [req EXCEPT !.pc = "save", !.mode = "update"]
       ELSE [req EXCEPT !.pc = "save", !.mode = "push"]

\* the branch taken on the loaded copy by registerDevice and by login
DeviceBranch(req) ==
  IF FindDevice(req.snap.devices, req.dev) # 0
  THEN [req EXCEPT !.pc = "save", !.mode = "update"]
  ELSE IF ~checkDeviceLimit(req.snap)
       THEN Respond(req, 403, "Device limit exceeded")
       ELSE [req EXCEPT !.pc = "save", !.mode = "push"]

\* POST /devices/register up to user.save()
registerDevice(deviceId, ip) ==
  /\ deviceId # NoDevice
  /\ Arrive(DeviceBranch([IdleReq EXCEPT !.kind = "register", !.dev = deviceId,
                                         !.ip = ip, !.snap = LoadUser]))
  /\ UNCHANGED <<now, env, userDoc, subs, pays, hist>>

\* POST /auth/login up to the first user.save()
login(deviceId, ip) ==
  /\ LET req == [IdleReq EXCEPT !.kind = "login", !.dev = deviceId, !.ip = ip,
                                !.snap = LoadUser]
     IN Arrive(IF deviceId # NoDevice
               THEN DeviceBranch(req)
               ELSE [req EXCEPT !.pc = "save", !.mode = "none"])
  /\ UNCHANGED <<now, env, userDoc, subs, pays, hist>>

\* user.save() of registerDevice and the first user.save() of login:
\* $push of the new device (increments __v), or $set of the fields of the
\* device at its loaded position (only if __v is still the loaded one)
DeviceSave(r) ==
  /\ reqs[r].pc = "save"
  /\ reqs[r].kind \in {"register", "login"}
  /\ LET req == reqs[r]
         after == IF req.kind = "login"
                  THEN [req EXCEPT !.pc = "tokens", !.snap = EmptySnap]
                  ELSE Respond(req, IF req.mode = "push" THEN 201 ELSE 200, "ok")
         i == FindDevice(req.snap.devices, req.dev)
     IN CASE req.mode = "push" ->
               /\ userDoc' = [userDoc EXCEPT
                                !.devices = Append(@, NewDevice(req.dev, req.ip, r)),
                                !.v = @ + 1]
               /\ reqs' = [reqs EXCEPT ![r] = after]
          [] req.mode = "update" ->
               IF userDoc.v = req.snap.v
               THEN /\ userDoc' = [userDoc EXCEPT
                                     !.devices[i].lastActive = Instant(r),
                                     !.devices[i].ipAddress = req.ip]
                    /\ reqs' = [reqs EXCEPT ![r] = after]
               ELSE /\ reqs' = [reqs EXCEPT ![r] = Respond(req, 500, "VersionError")]
                    /\ UNCHANGED userDoc
          [] req.mode = "none" ->
               /\ reqs' = [reqs EXCEPT ![r] = after]
               /\ UNCHANGED userDoc
  /\ UNCHANGED <<now, env, subs, pays, hist>>

\* login: user.refreshTokens.push + user.save() (a $push: increments __v)
LoginTokens(r) ==
  /\ reqs[r].pc = "tokens"
  /\ userDoc' = [userDoc EXCEPT !.v = @ + 1]
  /\ reqs' = [reqs EXCEPT ![r] = Respond(reqs[r], 200, "ok")]
  /\ UNCHANGED <<now, env, subs, pays, hist>>

\* devices.filter(d => d.deviceId !== deviceId)
FilterDevices(devices, deviceId) ==
  SelectSeq(devices, LAMBDA d : d.deviceId # deviceId)

\* DELETE /devices/:deviceId up to user.save()
removeDevice(deviceId) ==
  /\ deviceId # NoDevice
  /\ Arrive([IdleReq EXCEPT !.kind = "remove", !.pc = "save", !.dev = deviceId,
                            !.snap = LoadUser])
  /\ UNCHANGED <<now, env, userDoc, subs, pays, hist>>

\* user.save() of removeDevice: $set of the whole array, only if __v is
\* still the loaded one, and __v is incremented; nothing is written when
\* the filter removed nothing
RemoveSave(r) ==
  /\ reqs[r].pc = "save"
  /\ reqs[r].kind = "remove"
  /\ LET req == reqs[r]
         kept == FilterDevices(req.snap.devices, req.dev)
     IN IF kept = req.snap.devices
        THEN /\ reqs' = [reqs EXCEPT ![r] = Respond(req, 200, "ok")]
             /\ UNCHANGED userDoc
        ELSE IF userDoc.v = req.snap.v
             THEN /\ userDoc' = [userDoc EXCEPT !.devices = kept, !.v = @ + 1]
                  /\ reqs' = [reqs EXCEPT ![r] = Respond(req, 200, "ok")]
             ELSE /\ reqs' = [reqs EXCEPT ![r] = Respond(req, 500, "VersionError")]
                  /\ UNCHANGED userDoc
  /\ UNCHANGED <<now, env, subs, pays, hist>>

\* ------------------------------------------------------------- routes/user
\* a request to stop the stream (contentId, deviceId): the router has no
\* route for it under /stream, so Express answers 404
StopStream(contentId, deviceId) ==
  /\ Arrive(Respond([IdleReq EXCEPT !.kind = "stop", !.content = contentId,
                                    !.dev = deviceId], 404, "no route"))
  /\ UNCHANGED <<now, env, userDoc, subs, pays, hist>>

\* -------------------------------------------------------- specifications
DeviceIds == {1, 2}
Ips == {"ip1", "ip2"}
RequestedQualities == {NoQuality, "480p", "720p", "1080p", "4K", "240p"}

StreamSteps ==
  \/ \E r \in Reqs : StreamResolve(r)
  \/ \E r \in Reqs : StreamContent(r)
  \/ \E r \in Reqs : StreamSave(r)
  \/ \E r \in Reqs : StreamSign(r)

\* the account after subscribe, createPaymentOrder and verifyPayment for
\* plan p at time 0
Subscribed(p) ==
  /\ now = 0
  /\ env \in Envs
  /\ userDoc = [devices |-> <<>>, currentStreams |-> <<>>, v |-> 0, subscription |-> 1]
  /\ subs = <<[plan |-> p, status |-> "active", startDate |-> 0,
               endDate |-> Plan[p].duration]>>
  /\ pays = <<[subscription |-> 1, plan |-> p, status |-> "completed"]>>
  /\ reqs = <<>>
  /\ hist = <<>>

\* a deployment whose configured limits are those of the account's plan
LimitsAsPlanned ==
  /\ (IF env.streams = Unset THEN DefaultMaxStreams ELSE env.streams)
       = Plan[subs[1].plan].maxStreams
  /\ (IF env.devices = Unset THEN DefaultMaxDevices ELSE env.devices)
       = Plan[subs[1].plan].maxDevices

\* concurrent stream-start and stream-stop requests of a subscribed account
InitStream == (\E p \in {1, 3} : Subscribed(p)) /\ LimitsAsPlanned

NextStream ==
  \/ /\ Len(reqs) < MaxStreamReqs
     /\ \/ StreamLoadUser("movie", "m1", 1, NoQuality)
        \/ StreamLoadUser("episode", "e1", NoDevice, NoQuality)
  \/ StreamSteps
  \/ Len(reqs) < MaxStreamReqs /\ StopStream("m1", 1)

SpecStream == InitStream /\ [][NextStream]_vars

\* concurrent registerDevice, login and removeDevice requests
NextDevice ==
  \/ /\ Len(reqs) < MaxDeviceReqs
     /\ \E ip \in Ips :
          \/ \E d \in DeviceIds : registerDevice(d, ip)
          \/ \E d \in DeviceIds \cup {NoDevice} : login(d, ip)
  \/ Len(reqs) < MaxDeviceReqs /\ \E d \in DeviceIds : removeDevice(d)
  \/ \E r \in Reqs : DeviceSave(r)
  \/ \E r \in Reqs : LoginTokens(r)
  \/ \E r \in Reqs : RemoveSave(r)

InitDevice == (\E p \in {1, 3} : Subscribed(p)) /\ LimitsAsPlanned

SpecDevice == InitDevice /\ [][NextDevice]_vars

\* one account registering and removing devices while it starts streams
NextUnlink ==
  \/ /\ Len(reqs) < MaxUnlinkReqs
     /\ \E d \in DeviceIds, ip \in Ips : registerDevice(d, ip)
  \/ Len(reqs) < MaxUnlinkReqs /\ \E d \in DeviceIds : removeDevice(d)
  \/ /\ Len(reqs) < MaxUnlinkReqs
     /\ \E d \in DeviceIds : StreamLoadUser("movie", "m1", d, NoQuality)
  \/ \E r \in Reqs : DeviceSave(r)
  \/ \E r \in Reqs : RemoveSave(r)
  \/ StreamSteps

SpecUnlink == InitDevice /\ [][NextUnlink]_vars

AllDone == \A r \in Reqs : reqs[r].pc = "done"

\* the subscription life cycle with stream-start and qualities requests of
\* one client, issued one after the other (getEpisodeStream resolves the
\* entitlement with the same statements as getMovieStream)
Lifecycle(plans) ==
  \/ Tick
  \/ \E p \in plans : Len(subs) < MaxSubs /\ subscribe(p)
  \/ \E s \in 1 .. MaxSubs : Len(pays) < MaxPays /\ createPaymentOrder(s)
  \/ \E p \in 1 .. MaxPays, isValid \in BOOLEAN : verifyPayment(p, isValid)
  \/ cancelSubscription

NextEntitle ==
  \/ Lifecycle({2})
  \/ /\ Len(reqs) < MaxEntitleReqs
     /\ AllDone
     /\ \/ StreamLoadUser("movie", "m1", 1, NoQuality)
        \/ getAvailableQualities
  \/ StreamSteps

SpecEntitle == Init /\ [][NextEntitle]_vars

\* the life cycle of an account that subscribes more than once (renewal
\* after expiry, a second subscribe before the first is paid), with the
\* stream-start requests of one client issued one after the other
NextRenew ==
  \/ Tick
  \/ Len(subs) < MaxRenewSubs /\ subscribe(1)
  \/ \E s \in 1 .. MaxRenewSubs : Len(pays) < MaxRenewPays /\ createPaymentOrder(s)
  \/ \E p \in 1 .. MaxRenewPays, isValid \in BOOLEAN : verifyPayment(p, isValid)
  \/ cancelSubscription
  \/ /\ Len(reqs) < MaxRenewReqs
     /\ AllDone
     /\ StreamLoadUser("movie", "m1", 1, NoQuality)
  \/ StreamSteps

SpecRenew == Init /\ [][NextRenew]_vars

\* one client issuing stream-start and qualities requests one after the
\* other, for every plan and every requested quality
InitQuality == \E p \in PlanIds : Subscribed(p)

NextQuality ==
  \/ /\ Len(reqs) < MaxQualityReqs
     /\ AllDone
     /\ \/ \E q \in RequestedQualities :
             \/ StreamLoadUser("movie", "m1", 1, q)
             \/ StreamLoadUser("movie", "m3", 1, q)
             \/ StreamLoadUser("episode", "e1", 1, q)
        \/ getAvailableQualities
  \/ StreamSteps

SpecQuality == InitQuality /\ [][NextQuality]_vars

\* one client issuing stream-start requests one after the other against
\* either definition of the handlers in streamingController.js
CopyQualities == {NoQuality, "480p", "720p", "4K"}

StreamSteps2 ==
  \E r \in Reqs :
    \/ StreamResolve2(r)
    \/ StreamContent2(r)

NextCopies ==
  \/ /\ Len(reqs) < MaxCopyReqs
     /\ AllDone
     /\ \E q \in CopyQualities :
          \/ StreamLoadUser("movie", "m1", 1, q)
          \/ StreamLoadUser("episode", "e1", 1, q)
          \/ StreamLoadUser2("movie", "m1", 1, q)
          \/ StreamLoadUser2("episode", "e1", 1, q)
  \/ StreamSteps
  \/ StreamSteps2

SpecCopies == InitQuality /\ [][NextCopies]_vars

\* position updates and reads of one account, concurrent, with a stream-start
Watched == {Undefined, -3, 0, 3, 15}

Totals == {Undefined, -8, 8, 16}

\* the row an earlier POST /stream/playback-position { m1, Movie, 3, 8 } left
StoredRow == [contentId |-> "m1", contentType |-> "Movie", watchedDuration |-> 3,
              totalDuration |-> 8, progress |-> 38, completed |-> FALSE,
              lastWatchedAt |-> 0]

\* a subscribed account whose ledger is empty or holds that row
InitLedger ==
  /\ now = 0
  /\ env = [streams |-> Unset, devices |-> Unset]
  /\ userDoc = [devices |-> <<>>, currentStreams |-> <<>>, v |-> 0, subscription |-> 1]
  /\ subs = <<[plan |-> 3, status |-> "active", startDate |-> 0,
               endDate |-> Plan[3].duration]>>
  /\ pays = <<[subscription |-> 1, plan |-> 3, status |-> "completed"]>>
  /\ reqs = <<>>
  /\ hist \in {<<>>, <<StoredRow>>}

NextLedger ==
  \/ /\ Len(reqs) < MaxLedgerReqs
     /\ \/ \E w \in Watched, t \in Totals :
             \/ updatePlaybackPosition("m1", "Movie", w, t)
             \/ updateWatchHistory("m1", "Movie", w, t)
        \/ updatePlaybackPosition("e1", "Episode", 3, 8)
        \/ getPlaybackPosition("m1", "Movie")
        \/ StreamLoadUser("movie", "m1", 1, NoQuality)
  \/ \E r \in Reqs : HistorySave(r)
  \/ StreamSteps

SpecLedger == InitLedger /\ [][NextLedger]_vars

\* stream-starts of one client, one after the other, while time passes
NextReap ==
  \/ Tick
  \/ /\ Len(reqs) < MaxReapReqs
     /\ AllDone
     /\ StreamLoadUser("movie", "m1", 1, NoQuality)
  \/ StreamSteps

SpecReap == InitQuality /\ [][NextReap]_vars

\* ------------------------------------------------------------------ claims
\* the plan referenced by the account's subscription
AccountPlan == Plan[subs[userDoc.subscription].plan]

StreamReqs == {r \in Reqs : reqs[r].kind \in {"movie", "episode"}}

\* request r's entry is in the ActiveStreamRegistry
Admitted(r) ==
  \E i \in 1 .. Len(userDoc.currentStreams) : userDoc.currentStreams[i].id = r

\* C1: under any interleaving of stream-start requests, the number of
\* entries of the account's ActiveStreamRegistry never exceeds the
\* maxConcurrentStreams of its plan.
C1_StreamsWithinPlan ==
  userDoc.subscription # NoSub =>
    Len(userDoc.currentStreams) <= AccountPlan.maxStreams

\* C2: when N > k stream-start requests of an entitled account all run
\* against the empty registry (each loaded the account before any entry was
\* saved) and the storage collaborator does not fail, exactly k of them
\* succeed and the others fail with the stream-limit error, k being the
\* plan's maxConcurrentStreams.
C2_ExactlyKAdmitted ==
  LET k == AccountPlan.maxStreams
      ok == {r \in StreamReqs : reqs[r].status = 200}
  IN (/\ userDoc.subscription # NoSub
      /\ Cardinality(StreamReqs) > k
      /\ \A r \in StreamReqs : /\ reqs[r].pc = "done"
                                /\ reqs[r].seen = 0
                                /\ reqs[r].status # 500)
     => /\ Cardinality(ok) = k
        /\ \A r \in StreamReqs \ ok :
             reqs[r].msg = "Maximum concurrent streams reached"

\* C3: a stream-start of an entitled account, issued when no other request
\* is in flight, is rejected with the stream-limit error exactly when the
\* registry already holds m or more entries, m being the maxConcurrentStreams
\* of the plan of the resolved subscription; a rejected request leaves no
\* entry in the registry.
C3_AdmittedIffBelowPlanLimit ==
  \A r \in StreamReqs :
    reqs[r].sub # NoSub =>
      LET m == Plan[subs[reqs[r].sub].plan].maxStreams
          rejected == reqs[r].msg = "Maximum concurrent streams reached"
      IN /\ rejected <=> reqs[r].seen >= m
         /\ rejected => reqs[r].status = 403 /\ ~Admitted(r)

\* C4: under any interleaving of registerDevice, login and removeDevice
\* requests, the number of entries of the DeviceRegistry never exceeds the
\* maxDevices of the account's plan.
C4_DevicesWithinPlan ==
  userDoc.subscription # NoSub =>
    Len(userDoc.devices) <= AccountPlan.maxDevices

\* C5: registering (registerDevice or login) a device id that is already in
\* the DeviceRegistry is never answered with the device-limit error, however
\* full the registry is; its save never changes the number or the ids of the
\* entries; when the save is applied it sets the last-active instant and the
\* network origin of that device's entry to those of the request and leaves
\* every other entry alone; and it is applied whenever no other save of the
\* account came between its load and its save.
DeviceIdsOf(devices) == [i \in 1 .. Len(devices) |-> devices[i].deviceId]

C5_KnownArrives ==
  LET r == Len(reqs')
  IN (/\ Len(reqs') = Len(reqs) + 1
      /\ reqs'[r].kind \in {"register", "login"}
      /\ \E i \in 1 .. Len(userDoc.devices) :
            userDoc.devices[i].deviceId = reqs'[r].dev)
     => reqs'[r].status # 403 /\ reqs'[r].pc = "save"

C5_KnownSaves ==
  \A r \in Reqs :
    (/\ reqs[r].kind \in {"register", "login"}
     /\ reqs[r].pc = "save"
     /\ reqs'[r].pc # "save"
     /\ \E i \in 1 .. Len(reqs[r].snap.devices) :
           reqs[r].snap.devices[i].deviceId = reqs[r].dev)
    => /\ DeviceIdsOf(userDoc'.devices) = DeviceIdsOf(userDoc.devices)
       /\ reqs'[r].status # 403
       /\ userDoc.v = reqs[r].snap.v => reqs'[r].status # 500
       /\ reqs'[r].status # 500 =>
            \E i \in 1 .. Len(userDoc.devices) :
              /\ userDoc'.devices[i] = [deviceId |-> reqs[r].dev,
                                        lastActive |-> r,
                                        ipAddress |-> reqs[r].ip]
              /\ \A j \in 1 .. Len(userDoc.devices) :
                   j # i => userDoc'.devices[j] = userDoc.devices[j]
       /\ reqs'[r].status = 500 => userDoc' = userDoc

C5_KnownDeviceIdempotent == [][C5_KnownArrives /\ C5_KnownSaves]_vars

\* a known device was registered again, successfully, with the registry at
\* its limit
C5_Witness ==
  \E r \in Reqs :
    /\ reqs[r].kind = "register"
    /\ reqs[r].status = 200
    /\ env.devices # Unset
    /\ Len(userDoc.devices) = env.devices
    /\ \E i \in 1 .. Len(userDoc.devices) :
         /\ userDoc.devices[i].deviceId = reqs[r].dev
         /\ userDoc.devices[i].lastActive = r

\* C6: a stream-start or a qualities request passes entitlement resolution
\* only if, at that moment, the subscription it resolved has status active
\* and an end date after now; and only a request that passed it succeeds.
EntitlementChecked(r) ==
  \/ r \in Reqs /\ reqs[r].pc = "sub" /\ reqs'[r].pc # "sub"
  \/ r = Len(reqs) + 1 /\ reqs'[r].kind = "qualities"

C6_EntitledOnlyIfEffectivelyActive ==
  [][\A r \in 1 .. Len(reqs') :
       /\ (EntitlementChecked(r) /\ reqs'[r].msg # "Active subscription required")
            => /\ reqs'[r].sub \in 1 .. Len(subs)
               /\ subs[reqs'[r].sub].status = "active"
               /\ subs[reqs'[r].sub].endDate > now
       /\ (EntitlementChecked(r) /\ reqs'[r].msg = "Active subscription required")
            => reqs'[r].status = 403 /\ reqs'[r].pc = "done"
       /\ (reqs'[r].kind \in {"movie", "episode", "qualities"} /\ reqs'[r].status = 200)
            => reqs'[r].sub # NoSub]_vars

\* a request was refused while the account held a subscription whose status
\* is active and whose end date has passed
C6_Witness ==
  \E r \in Reqs :
    /\ reqs[r].kind \in {"movie", "episode"}
    /\ reqs[r].msg = "Active subscription required"
    /\ \E s \in 1 .. Len(subs) : subs[s].status = "active" /\ subs[s].endDate <= now

\* C7: a request that failed entitlement resolution is finished with 403;
\* the step that answers it leaves the whole account document (both
\* registries) unchanged; no token and no URL is made for it; and the
\* ActiveStreamRegistry never holds an entry of that request.
Denied(req) == req.msg = "Active subscription required"

C7_EntitlementHardStop ==
  [][\A r \in 1 .. Len(reqs') :
       Denied(reqs'[r]) =>
         /\ reqs'[r].pc = "done"
         /\ reqs'[r].status = 403
         /\ reqs'[r].token = NoToken
         /\ reqs'[r].url = NoUrl
         /\ \A i \in 1 .. Len(userDoc'.currentStreams) :
              userDoc'.currentStreams[i].id # r
         /\ (r \notin Reqs \/ ~Denied(reqs[r])) => userDoc' = userDoc]_vars

\* a stream-start was refused for entitlement
C7_Witness ==
  \E r \in Reqs : reqs[r].kind \in {"movie", "episode"} /\ Denied(reqs[r])

\* C8: a stop request for (content id, device id) removes the matching entry
\* of the ActiveStreamRegistry: after it the registry holds one entry less.
Matching(contentId, deviceId) ==
  {i \in 1 .. Len(userDoc.currentStreams) :
     /\ userDoc.currentStreams[i].contentId = contentId
     /\ userDoc.currentStreams[i].deviceId = deviceId}

C8_StopRemovesEntry ==
  [][LET r == Len(reqs')
     IN (/\ Len(reqs') = Len(reqs) + 1
         /\ reqs'[r].kind = "stop"
         /\ Matching(reqs'[r].content, reqs'[r].dev) # {})
        => Len(userDoc'.currentStreams) = Len(userDoc.currentStreams) - 1]_vars

\* C9: with the order 480p < 720p < 1080p < 4K, the serving quality of a
\* stream-start is never above the plan's cap c, is min(q, c) when a quality
\* q of the four is requested, and is c when none is requested.
TierOrder == <<"480p", "720p", "1080p", "4K">>

Tiers == {TierOrder[i] : i \in 1 .. Len(TierOrder)}

Rank(q) == CHOOSE i \in 1 .. Len(TierOrder) : TierOrder[i] = q

MinQuality(q, c) == IF Rank(q) <= Rank(c) THEN q ELSE c

CapOf(req) == Plan[subs[req.sub].plan].quality

Negotiated == {r \in StreamReqs : reqs[r].sub # NoSub /\ reqs[r].maxQuality # NoQuality}

C9_QualityClamped ==
  \A r \in Negotiated :
    reqs[r].q \in Tiers \cup {NoQuality} =>
      /\ reqs[r].quality \in Tiers
      /\ Rank(reqs[r].quality) <= Rank(CapOf(reqs[r]))
      /\ reqs[r].q # NoQuality => reqs[r].quality = MinQuality(reqs[r].q, CapOf(reqs[r]))
      /\ reqs[r].q = NoQuality => reqs[r].quality = CapOf(reqs[r])

\* a request for 4K under a 720p plan was served 720p
C9_Witness ==
  \E r \in StreamReqs :
    /\ reqs[r].status = 200
    /\ reqs[r].q = "4K"
    /\ CapOf(reqs[r]) = "720p"
    /\ reqs[r].quality = "720p"

\* C10: the allowed-qualities list of a successful stream-start and of a
\* successful qualities request is the list of the tiers up to the plan's
\* cap, in ascending order, and maxQuality is the cap; so both endpoints
\* answer the same for the same subscription.
Allowed(c) == [i \in 1 .. Rank(c) |-> TierOrder[i]]

Answered == {r \in Reqs : /\ reqs[r].kind \in {"movie", "episode", "qualities"}
                          /\ reqs[r].status = 200}

C10_AllowedQualities ==
  /\ \A r \in Answered : /\ reqs[r].avail = Allowed(CapOf(reqs[r]))
                          /\ reqs[r].maxQuality = CapOf(reqs[r])
  /\ \A r1, r2 \in Answered :
       reqs[r1].sub = reqs[r2].sub =>
         /\ reqs[r1].avail = reqs[r2].avail
         /\ reqs[r1].maxQuality = reqs[r2].maxQuality

\* both endpoints answered [480p, 720p] under a 720p plan
C10_Witness ==
  \E r1, r2 \in Answered :
    /\ reqs[r1].kind = "movie"
    /\ reqs[r2].kind = "qualities"
    /\ reqs[r1].avail = <<"480p", "720p">>
    /\ reqs[r2].avail = <<"480p", "720p">>
    /\ reqs[r1].maxQuality = "720p"


\* the outcome of a finished stream-start: the answer and whether an entry
\* was registered
Finished(r) == r \in StreamReqs /\ reqs[r].pc = "done" /\ reqs[r].status # 500

SameSituation(r1, r2) ==
  /\ reqs[r1].def = reqs[r2].def
  /\ reqs[r1].kind = reqs[r2].kind
  /\ reqs[r1].content = reqs[r2].content
  /\ reqs[r1].seen = reqs[r2].seen

\* C11: a stream-start is never rejected because of the requested quality:
\* two stream-starts of the same title made in the same situation (same
\* registry size, same subscription) end the same way whatever quality each
\* asked for, and a quality above the plan cap is served at the cap.
C11_NeverRejectedForQuality ==
  /\ \A r1, r2 \in StreamReqs :
       Finished(r1) /\ Finished(r2) /\ SameSituation(r1, r2) =>
         reqs[r1].status = reqs[r2].status /\ reqs[r1].msg = reqs[r2].msg
  /\ \A r \in StreamReqs :
       Finished(r) /\ reqs[r].status = 200 /\ reqs[r].q \in Tiers
         /\ Rank(reqs[r].q) > Rank(CapOf(reqs[r]))
       => reqs[r].quality = CapOf(reqs[r])


\* ------------------------------------------------ playback position ledger
LedgerReqs == {r \in Reqs : reqs[r].kind \in {"position", "history"}}

\* request r writes its document in this step
Saves(r) == r \in LedgerReqs /\ reqs[r].pc = "history" /\ reqs'[r].status = 200

\* C12: after any sequence of position updates through both routes, the
\* concurrent first-time ones included, there is at most one PlaybackPosition
\* row per (account, content id, content type).
C12_OneRowPerKey ==
  \A i, j \in 1 .. Len(hist) :
    hist[i].contentId = hist[j].contentId /\ hist[i].contentType = hist[j].contentType
      => i = j

\* two first-time updates of one key ran concurrently: the second insert was
\* refused by the unique index and the key has its single row
C12_Witness ==
  /\ \E r \in LedgerReqs : reqs[r].status = 500 /\ reqs[r].msg = "E11000 duplicate key"
  /\ \E r \in LedgerReqs : reqs[r].status = 200
  /\ Len(hist) = 1

\* C13: after every position upsert the stored progress is
\* min(100, round(watchedDuration / totalDuration * 100)) of the stored
\* durations when totalDuration > 0, is 0 otherwise, and lies in [0, 100].
C13_ProgressFromDurations ==
  \A i \in 1 .. Len(hist) :
    /\ hist[i].progress \in 0 .. 100
    /\ hist[i].progress =
         IF hist[i].totalDuration > 0
         THEN Min(100, RoundPercent(hist[i].watchedDuration, hist[i].totalDuration))
         ELSE 0

\* C14: in every stored record, after any sequence of updates, completed is
\* true exactly when progress >= 90.
C14_CompletedIffNinety ==
  \A i \in 1 .. Len(hist) : hist[i].completed <=> (hist[i].progress >= 90)

\* C15: once a record is completed, no later update with a smaller
\* watchedDuration sets completed back to false.
C15_Step ==
  \A i \in 1 .. Len(hist) :
    hist[i].completed /\ hist'[i].watchedDuration < hist[i].watchedDuration
      => hist'[i].completed

C15_CompletedSticks == [][C15_Step]_vars

\* request r repeats, right after it, the submission of r0: same route and
\* body, r read the row r0 wrote, and that row still is the document r0 saved
\* (no other update was written over it, before or after r0's save)
Repeats(r, r0) ==
  /\ r0 \in LedgerReqs /\ r0 < r
  /\ reqs[r0].status = 200
  /\ reqs[r0].kind = reqs[r].kind /\ reqs[r0].body = reqs[r].body
  /\ reqs[r].found # 0
  /\ reqs[r].loaded.lastWatchedAt = Instant(r0)
  /\ hist[reqs[r].found].lastWatchedAt = Instant(r0)
  /\ reqs[r].loaded = reqs[r0].doc
  /\ hist[reqs[r].found] = reqs[r0].doc

SameButLastWatched(row1, row2) == [row1 EXCEPT !.lastWatchedAt = 0] = [row2 EXCEPT !.lastWatchedAt = 0]

C16_Step ==
  \A r \in LedgerReqs :
    reqs[r].pc = "history" /\ reqs'[r].pc = "done" /\ (\E r0 \in Reqs : Repeats(r, r0)) =>
      /\ reqs'[r].status = 200
      /\ Len(hist') = Len(hist)
      /\ \A i \in 1 .. Len(hist) : SameButLastWatched(hist'[i], hist[i])

\* C16: the upsert is idempotent: the same (contentId, contentType,
\* watchedDuration, totalDuration) submitted twice in a row leaves the number
\* of records and the stored watchedDuration, totalDuration, progress and
\* completed as after the first submission; only lastWatchedAt may change.
C16_UpsertIdempotent == [][C16_Step]_vars

\* the second of two identical submissions has been saved over a row with
\* a computed progress
C16_Witness ==
  \E r \in LedgerReqs :
    /\ reqs[r].status = 200 /\ reqs[r].found # 0
    /\ reqs[r].loaded # NoRow
    /\ \E r0 \in LedgerReqs :
         /\ r0 < r /\ reqs[r0].status = 200
         /\ reqs[r0].kind = reqs[r].kind /\ reqs[r0].body = reqs[r].body
         /\ reqs[r].loaded = reqs[r0].doc
    /\ hist[reqs[r].found].lastWatchedAt = Instant(r)
    /\ hist[reqs[r].found].progress = 94

\* a read of the resume point answers in this step
ReadsResume(r) ==
  \/ r = Len(reqs) + 1 /\ Len(reqs') = r /\ reqs'[r].kind = "resume"
  \/ r \in StreamReqs /\ reqs[r].pc = "sign" /\ reqs'[r].status = 200

C17_Step ==
  /\ \A r \in LedgerReqs :
       Saves(r) /\ reqs[r].body.watchedDuration # Undefined =>
         hist'[reqs'[r].found].watchedDuration = reqs[r].body.watchedDuration
  /\ \A r \in 1 .. Len(reqs') :
       ReadsResume(r) =>
         reqs'[r].resume =
           LET row == findOneHistory(
                        IF reqs'[r].kind = "resume" THEN reqs'[r].body.contentId
                        ELSE reqs'[r].content,
                        IF reqs'[r].kind = "resume" THEN reqs'[r].body.contentType
                        ELSE ContentTypeOf(reqs'[r].kind))
           IN IF row = 0 THEN 0 ELSE hist[row].watchedDuration

\* C17: the resume point returned by GET /stream/playback-position and by
\* stream-start is the watchedDuration of the most recently written record of
\* the key: an update with watchedDuration = w stores w, the next read
\* returns w, and a read with no record returns 0.
C17_ResumeIsLatest == [][C17_Step]_vars


\* ------------------------------------------------------ media key, life cycle
\* stream-start requests of the first definition that resolved a media key
Resolved == {r \in StreamReqs : reqs[r].def = 1 /\ reqs[r].path # NoPath}

\* C18: media key resolution has one precedence: a title with a stored object
\* path is signed at that path whatever quality was requested; the derived
\* quality-keyed key is used only when the title has no stored path.
C18_StoredPathFirst ==
  \A r \in Resolved :
    LET stored == Catalog[reqs[r].content].video
    IN reqs[r].path = IF stored # NoPath THEN stored
                      ELSE getVideoPath(reqs[r].kind, reqs[r].content, reqs[r].quality)


C19_Step ==
  /\ \A i \in 1 .. Len(subs') :
       i > Len(subs) => subs'[i].status = "pending"
  /\ \A i \in 1 .. Len(subs) :
       subs[i].status # "active" /\ subs'[i].status = "active" =>
         \E p \in 1 .. Len(pays) :
           pays[p].subscription = i /\ pays'[p].status = "completed"

\* C19: a subscription is created pending, and its status becomes active
\* only in a step that confirms a payment of that subscription; subscribe,
\* createPaymentOrder, a failed verification and cancel never activate one.
C19_ActiveOnlyByPayment == [][C19_Step]_vars

\* a subscription created pending has been activated by its completed
\* payment
C19_Witness ==
  /\ Len(subs) >= 1 /\ subs[1].status = "active"
  /\ \E p \in 1 .. Len(pays) : pays[p].subscription = 1 /\ pays[p].status = "completed"


\* ------------------------------------------------------------- credentials
\* stream-starts answered with a credential and a signed URL
Served == {r \in StreamReqs : reqs[r].status = 200}

\* C20: the credential and the pre-signed URL of one stream-start response
\* carry the same TTL of 2 hours and expire at the same instant: no time at
\* which one of the two is valid and the other is not. Each expires one TTL
\* after the instant it was issued at, so with equal TTLs the two expire
\* together exactly when they were issued at the same instant.
C20_SameExpiry ==
  \A r \in Served :
    /\ reqs[r].token.ttl = 7200 /\ reqs[r].url.ttl = 7200
    /\ reqs[r].token.iat = reqs[r].url.signedAt


\* ------------------------------------------------- registries, concurrency
\* request r writes its new device in this step
PushesDevice(r) ==
  /\ r \in Reqs /\ reqs[r].kind \in {"register", "login"}
  /\ reqs[r].pc = "save" /\ reqs[r].mode = "push"
  /\ reqs'[r] # reqs[r]
  /\ userDoc'.devices # userDoc.devices

\* request r writes its filtered device list in this step
WritesRemoval(r) ==
  /\ r \in Reqs /\ reqs[r].kind = "remove" /\ reqs[r].pc = "save"
  /\ reqs'[r] # reqs[r]
  /\ userDoc'.devices # userDoc.devices

\* request r writes its stream entry in this step
PushesStream(r) ==
  /\ r \in StreamReqs /\ reqs[r].pc = "save"
  /\ reqs'[r] # reqs[r]
  /\ userDoc'.currentStreams # userDoc.currentStreams

\* every registry mutation takes effect as one register-or-reject operation
\* on the registry as it is when it is written
C21_Step ==
  /\ \A r \in Reqs :
       PushesDevice(r) =>
         /\ checkDeviceLimit(userDoc)
         /\ userDoc'.devices = Append(userDoc.devices, NewDevice(reqs[r].dev, reqs[r].ip, r))
  /\ \A r \in Reqs :
       WritesRemoval(r) =>
         userDoc'.devices = FilterDevices(userDoc.devices, reqs[r].dev)
  /\ \A r \in Reqs :
       PushesStream(r) =>
         /\ checkStreamLimit(userDoc)
         /\ Len(userDoc'.currentStreams) = Len(userDoc.currentStreams) + 1
  /\ \A i \in 1 .. Len(userDoc.currentStreams) :
       /\ i <= Len(userDoc'.currentStreams)
       /\ userDoc'.currentStreams[i] = userDoc.currentStreams[i]

\* C21: the registry mutations of one account are linearizable: each takes
\* effect as one whole register-or-reject operation on the current registry,
\* so that a concurrent add and remove that both succeed leave the added
\* device in and the removed one out, and a stream entry is never lost to
\* a concurrent save.
C21_Linearizable == [][C21_Step]_vars

\* the updates themselves are not lost: writes apply to the current registry
C21_NoLostUpdate ==
  [][/\ \A r \in Reqs :
          PushesDevice(r) =>
            userDoc'.devices = Append(userDoc.devices, NewDevice(reqs[r].dev, reqs[r].ip, r))
     /\ \A r \in Reqs :
          WritesRemoval(r) => userDoc'.devices = FilterDevices(userDoc.devices, reqs[r].dev)
     /\ \A i \in 1 .. Len(userDoc.currentStreams) :
          /\ i <= Len(userDoc'.currentStreams)
          /\ userDoc'.currentStreams[i] = userDoc.currentStreams[i]]_vars


\* request r's entitlement and stream limit are decided in this step, and
\* the account is entitled
ResolvesEntitled(r) ==
  /\ r \in StreamReqs /\ reqs[r].pc = "sub" /\ reqs'[r] # reqs[r]
  /\ findOneActive # NoSub /\ isActive(subs[findOneActive])

C22_Step ==
  /\ \A i \in 1 .. Len(userDoc.currentStreams) :
       /\ i <= Len(userDoc'.currentStreams)
       /\ userDoc'.currentStreams[i] = userDoc.currentStreams[i]
  /\ \A r \in Reqs :
       ResolvesEntitled(r) /\ reqs[r].seen >= AccountPlan.maxStreams =>
         /\ reqs'[r].status = 403
         /\ reqs'[r].msg = "Maximum concurrent streams reached"

\* C22: registry entries are never removed by the passage of time: once the
\* account holds maxConcurrentStreams entries, every later stream-start of
\* the (entitled) account is rejected with the stream-limit error, however
\* much time has passed.
C22_NoReaping == [][C22_Step]_vars

\* the part of C22 about time alone: no step removes or changes an entry
C22_EntriesStay ==
  [][\A i \in 1 .. Len(userDoc.currentStreams) :
       /\ i <= Len(userDoc'.currentStreams)
       /\ userDoc'.currentStreams[i] = userDoc.currentStreams[i]]_vars


\* C23: a stream-start that ends with a non-success response leaves the
\* registry as it was before the request: an entry exists only for requests
\* that returned a credential and a URL to the caller.
C23_EntryOnlyForServed ==
  \A i \in 1 .. Len(userDoc.currentStreams) :
    LET r == userDoc.currentStreams[i].id
    IN reqs[r].pc = "done" => reqs[r].status = 200


\* C24: for every successful stream-start, also one that omits deviceId, the
\* deviceId claim of the issued credential equals the deviceId stored in the
\* registry entry appended by that same request.
C24_TokenDeviceIsEntryDevice ==
  \A r \in Served :
    \A i \in 1 .. Len(userDoc.currentStreams) :
      userDoc.currentStreams[i].id = r =>
        reqs[r].token.deviceId = userDoc.currentStreams[i].deviceId


\* the subscriptions that are effectively active: status active and end > now
EffectivelyActive == {i \in 1 .. Len(subs) : isActive(subs[i])}

\* C25: whenever the account holds at least one subscription with status
\* active and end > now, entitlement resolution succeeds, even if the account
\* still holds an older subscription with status active whose end has passed.
C25_EntitledWhenAnyActive ==
  [][\A r \in Reqs :
       (/\ r \in StreamReqs /\ reqs[r].pc = "sub" /\ reqs'[r] # reqs[r]
        /\ EffectivelyActive # {})
         => ~(reqs'[r].status = 403 /\ reqs'[r].msg = EntitlementDenied(reqs[r]).msg)]_vars

\* C26: after any sequence of subscribe, createPaymentOrder, verifyPayment
\* and cancelSubscription calls, at most one subscription of the user is
\* effectively active at any time.
C26_AtMostOneActive == Cardinality(EffectivelyActive) <= 1


C27_Step ==
  /\ \A i \in 1 .. Len(subs) :
       subs[i].status = "cancelled" => subs'[i].status # "active"
  /\ \A p \in 1 .. Len(pays), isValid \in BOOLEAN :
       (pays[p].status = "completed" /\ verifyPayment(p, isValid)) =>
         LET s == pays[p].subscription
         IN /\ subs'[s].status = subs[s].status
            /\ subs'[s].startDate = subs[s].startDate
            /\ subs'[s].endDate = subs[s].endDate

\* C27: a cancelled subscription never becomes active again, and verifying
\* a payment that is already completed leaves its subscription's status,
\* start and end unchanged.
C27_CancelledStaysCancelled == [][C27_Step]_vars


InList(x, list) == \E i \in 1 .. Len(list) : list[i] = x

\* C28: for every requested quality value, also one outside the four known
\* levels, and every plan cap, the serving quality returned by stream-start,
\* placed in the credential and used for the media key is a member of the
\* availableQualities list of the same response.
C28_ServedQualityIsAvailable ==
  \A r \in Served :
    reqs[r].def = 1 =>
      /\ InList(reqs[r].quality, reqs[r].avail)
      /\ InList(reqs[r].token.quality, reqs[r].avail)


\* C29: in every reachable state, also after concurrent registerDevice and
\* login requests that carry the same previously unseen device id, the
\* device ids of the account's device registry are pairwise distinct.
C29_DeviceIdsDistinct ==
  \A i, j \in 1 .. Len(userDoc.devices) :
    i # j => userDoc.devices[i].deviceId # userDoc.devices[j].deviceId


\* request r, a removeDevice, is answered with success in this step
RemoveSucceeds(r) ==
  /\ r \in Reqs /\ reqs[r].kind = "remove" /\ reqs[r].pc = "save"
  /\ reqs'[r].pc = "done" /\ reqs'[r].status = 200

\* C30: after removeDevice(d) succeeds, the account's stream registry holds
\* no entry whose deviceId is d, so streams started from a removed device no
\* longer count against the concurrent-stream limit.
C30_RemoveDropsStreams ==
  [][\A r \in Reqs :
       RemoveSucceeds(r) =>
         \A i \in 1 .. Len(userDoc'.currentStreams) :
           userDoc'.currentStreams[i].deviceId # reqs[r].dev]_vars

====
